---- MODULE Spec2Model ----
(***************************************************************************)
(* Model of src/git.rs: get_git_branch (the upward walk that looks for a   *)
(* `.git` entry and reads its HEAD) and parse_git_head (the pure parser of *)
(* a HEAD file's text).                                                    *)
(*                                                                         *)
(* Text is a sequence of one-character strings.  A path is a sequence of   *)
(* components, as std::path::Path sees it: an absolute path starts with    *)
(* the root component "/", the empty path is << >>.  Option<T> is a        *)
(* sequence of length 0 (None) or 1 (Some).                                *)
(***************************************************************************)
EXTENDS Integers, Sequences, FiniteSets, TLC

VARIABLES
    \* the filesystem the call reads (never written by the program)
    cwd,        \* the process's working directory, an absolute path
    dotgit,     \* absolute directory -> what its `.git` entry is
    gitdirHead, \* text of a worktree gitdir path -> Option(text of <path>/HEAD)
    \* one call of get_git_branch
    pc,         \* "idle" | "loop" | "done"
    path,       \* the argument
    current,    \* Option(path): the loop variable `current`
    visited,    \* the directories the loop has examined, in order
    reads,      \* the filesystem accesses the call has made
    result,     \* the returned Option<String>
    \* one call of parse_git_head on its own
    ppc,        \* "off" | "ready" | "parsed"
    contents,   \* the argument
    parsed      \* the returned Option<String>

fsVars == <<cwd, dotgit, gitdirHead>>
walkVars == <<pc, path, current, visited, reads, result>>
parseVars == <<ppc, contents, parsed>>
vars == <<cwd, dotgit, gitdirHead, pc, path, current, visited, reads, result,
          ppc, contents, parsed>>

----------------------------------------------------------------------------
(* Bounds *)

MaxDepth == 2   \* directories below the root
MaxPad == 1     \* whitespace characters before / after a HEAD text
MaxTail == 2    \* free characters at the end of a HEAD text

----------------------------------------------------------------------------
(* Option *)

None == << >>
Some(x) == << x >>

----------------------------------------------------------------------------
(* str primitives *)

\* char::is_whitespace, on the characters the model uses
is_whitespace(c) == c \in {" ", "\n", "\t", "\r"}

HexDigits ==
    {"0", "1", "2", "3", "4", "5", "6", "7", "8", "9",
     "a", "b", "c", "d", "e", "f", "A", "B", "C", "D", "E", "F"}

is_ascii_hexdigit(c) == c \in HexDigits

\* the characters that take more than one byte in UTF-8
utf8_width(c) == IF c = "é" THEN 2 ELSE 1

RECURSIVE len(_)
\* str::len: the length in bytes
len(s) == IF s = << >> THEN 0 ELSE utf8_width(Head(s)) + len(Tail(s))

RECURSIVE trim_start(_)
trim_start(s) ==
    IF s # << >> /\ is_whitespace(Head(s)) THEN trim_start(Tail(s)) ELSE s

RECURSIVE trim_end(_)
trim_end(s) ==
    IF s # << >> /\ is_whitespace(s[Len(s)])
    THEN trim_end(SubSeq(s, 1, Len(s) - 1))
    ELSE s

\* a trim that forgets the leading whitespace
trim_end_only(s) == trim_end(s)

trim(s) == trim_end(trim_start(s))

starts_with(s, p) == Len(s) >= Len(p) /\ SubSeq(s, 1, Len(p)) = p

strip_prefix(s, p) ==
    IF starts_with(s, p) THEN Some(SubSeq(s, Len(p) + 1, Len(s))) ELSE None

RECURSIVE all_hexdigit(_)
\* contents.chars().all(|c| c.is_ascii_hexdigit())
all_hexdigit(s) ==
    s = << >> \/ (is_ascii_hexdigit(Head(s)) /\ all_hexdigit(Tail(s)))

----------------------------------------------------------------------------
(* The literals of git.rs *)

RefPrefix == <<"r", "e", "f", ":", " ">>
HeadsPrefix == <<"r", "e", "f", "s", "/", "h", "e", "a", "d", "s", "/">>
RemotesPrefix ==
    <<"r", "e", "f", "s", "/", "r", "e", "m", "o", "t", "e", "s", "/">>
GitdirPrefix == <<"g", "i", "t", "d", "i", "r", ":", " ">>
Ellipsis == <<".", ".", ".">>
ShortHashLen == 7

----------------------------------------------------------------------------
(* parse_git_head *)

\* the hash test written with > instead of >=
parse_git_head_strict_len(text) ==
    LET trimmed == trim(text)
        ref_path == strip_prefix(trimmed, RefPrefix)
    IN  IF ref_path # None
        THEN LET branch == strip_prefix(ref_path[1], HeadsPrefix)
                 remote_branch == strip_prefix(ref_path[1], RemotesPrefix)
             IN  IF branch # None THEN Some(branch[1])
                 ELSE IF remote_branch # None THEN Some(remote_branch[1])
                 ELSE Some(ref_path[1])
        ELSE IF len(trimmed) > ShortHashLen /\ all_hexdigit(trimmed)
        THEN Some(SubSeq(trimmed, 1, ShortHashLen) \o Ellipsis)
        ELSE None

\* the refs/remotes/ case left out
parse_git_head_no_remotes(text) ==
    LET trimmed == trim(text)
        ref_path == strip_prefix(trimmed, RefPrefix)
    IN  IF ref_path # None
        THEN LET branch == strip_prefix(ref_path[1], HeadsPrefix)
             IN  IF branch # None THEN Some(branch[1])
                 ELSE Some(ref_path[1])
        ELSE IF len(trimmed) >= ShortHashLen /\ all_hexdigit(trimmed)
        THEN Some(SubSeq(trimmed, 1, ShortHashLen) \o Ellipsis)
        ELSE None

parse_git_head(text) ==
    LET trimmed == trim(text)
        ref_path == strip_prefix(trimmed, RefPrefix)
    IN  IF ref_path # None
        THEN LET branch == strip_prefix(ref_path[1], HeadsPrefix)
                 remote_branch == strip_prefix(ref_path[1], RemotesPrefix)
             IN  IF branch # None THEN Some(branch[1])
                 ELSE IF remote_branch # None THEN Some(remote_branch[1])
                 ELSE Some(ref_path[1])
        ELSE IF len(trimmed) >= ShortHashLen /\ all_hexdigit(trimmed)
        THEN Some(SubSeq(trimmed, 1, ShortHashLen) \o Ellipsis)
        ELSE None

----------------------------------------------------------------------------
(* Paths, as std::path::Path handles them: lexically, by components *)

Root == <<"/">>

\* the guard of line 11 left out
is_empty_never(p) == FALSE

is_empty(p) == p = << >>

is_absolute(p) == p # << >> /\ p[1] = "/"

\* a parent that jumps over one level
parent_skips_level(p) ==
    IF Len(p) <= 2 THEN None ELSE Some(SubSeq(p, 1, Len(p) - 2))

\* a parent that takes a single relative component for the top
parent_stops_at_last_component(p) ==
    IF Len(p) <= 1 THEN None ELSE Some(SubSeq(p, 1, Len(p) - 1))

\* Path::parent: None for the root and for the empty path, otherwise the
\* path without its last component (so the parent of "d" is "")
parent(p) ==
    IF p = << >> \/ p = Root THEN None ELSE Some(SubSeq(p, 1, Len(p) - 1))

\* Path::join with a relative component
join(dir, name) == dir \o <<name>>

\* how the operating system resolves a path of the call
resolve(p) == IF is_absolute(p) THEN p ELSE cwd \o p

----------------------------------------------------------------------------
(* The filesystem the model is checked on *)

DirName == "d"

RECURSIVE Below(_)
\* the absolute directories at most n levels below the root
Below(n) ==
    IF n = 0 THEN {Root} ELSE Below(n - 1) \cup {join(d, DirName) : d \in Below(n - 1)}

AbsDirs == Below(MaxDepth)

RelPaths == {SubSeq(d, 2, Len(d)) : d \in AbsDirs}   \* "" , "d", "d/d", ...

InputPaths == AbsDirs \cup RelPaths

HeadDevelop ==
    RefPrefix \o HeadsPrefix \o <<"d", "e", "v", "e", "l", "o", "p", "\n">>
HeadMain == RefPrefix \o HeadsPrefix \o <<"m", "a", "i", "n">>
HeadGarbage == <<"n", "o", "t", "-", "a", "-", "r", "e", "f">>
HeadWorktree == RefPrefix \o HeadsPrefix \o <<"w", "t", "\n">>

Develop == <<"d", "e", "v", "e", "l", "o", "p">>

GitdirW == <<"/", "w">>     \* a gitdir whose HEAD is readable
GitdirX == <<"/", "x">>     \* a gitdir that does not exist

MarkerGood == GitdirPrefix \o <<" ">> \o GitdirW \o <<" ", "\n">>
MarkerDangling == GitdirPrefix \o GitdirX \o <<"\n">>
MarkerMalformed == <<" ">> \o GitdirPrefix \o GitdirW

\* what a directory's `.git` may be: nothing, a directory (text: its HEAD, None
\* when HEAD cannot be read), or a regular file (text: its contents, None when
\* it cannot be read)
GitEntries ==
    {[kind |-> "none", text |-> None]}
    \cup {[kind |-> "dir", text |-> t] :
            t \in {None, Some(HeadDevelop), Some(HeadMain), Some(HeadGarbage)}}
    \cup {[kind |-> "file", text |-> t] :
            t \in {None, Some(MarkerGood), Some(MarkerDangling), Some(MarkerMalformed)}}

NoEntry == [kind |-> "none", text |-> None]

\* dir.join(".git"), as the filesystem answers for it
EntryAt(dir) ==
    IF resolve(dir) \in DOMAIN dotgit THEN dotgit[resolve(dir)] ELSE NoEntry

\* fs::read_to_string(Path::new(git_path).join("HEAD"))
read_gitdir_head(git_path) ==
    IF git_path \in DOMAIN gitdirHead THEN gitdirHead[git_path] ELSE None

----------------------------------------------------------------------------
(* get_git_branch *)

\* the two ways a pass through the loop body ends: `return value`, or the
\* fall through to `current = dir.parent()`
Return(v) == [ret |-> TRUE, value |-> v]
Fallthrough == [ret |-> FALSE, value |-> None]

\* a `.git` directory with an unreadable HEAD ends the search with None
head_of_git_dir_stop_unreadable(entry) ==
    IF entry.text # None
    THEN Return(parse_git_head(entry.text[1]))
    ELSE Return(None)

\* a HEAD that does not parse lets the search go on
head_of_git_dir_skip_unparsed(entry) ==
    IF entry.text # None /\ parse_git_head(entry.text[1]) # None
    THEN Return(parse_git_head(entry.text[1]))
    ELSE Fallthrough

\* lines 22-27: `.git` is a directory
head_of_git_dir(entry) ==
    IF entry.text # None
    THEN Return(parse_git_head(entry.text[1]))
    ELSE Fallthrough

\* a worktree file that leads nowhere ends the search with None
head_of_git_file_stop_broken(entry) ==
    IF entry.text # None
    THEN LET stripped == strip_prefix(entry.text[1], GitdirPrefix)
         IN  IF stripped # None
             THEN LET git_path == trim(stripped[1])
                      head_contents == read_gitdir_head(git_path)
                  IN  IF head_contents # None
                      THEN Return(parse_git_head(head_contents[1]))
                      ELSE Return(None)
             ELSE Return(None)
    ELSE Fallthrough

\* the gitdir path used as written, whitespace and newline included
head_of_git_file_untrimmed(entry) ==
    IF entry.text # None
    THEN LET stripped == strip_prefix(entry.text[1], GitdirPrefix)
         IN  IF stripped # None
             THEN LET git_path == stripped[1]
                      head_contents == read_gitdir_head(git_path)
                  IN  IF head_contents # None
                      THEN Return(parse_git_head(head_contents[1]))
                      ELSE Fallthrough
             ELSE Fallthrough
    ELSE Fallthrough

\* lines 28-39: `.git` is a regular file (worktree)
head_of_git_file(entry) ==
    IF entry.text # None
    THEN LET stripped == strip_prefix(entry.text[1], GitdirPrefix)
         IN  IF stripped # None
             THEN LET git_path == trim(stripped[1])
                      head_contents == read_gitdir_head(git_path)
                  IN  IF head_contents # None
                      THEN Return(parse_git_head(head_contents[1]))
                      ELSE Fallthrough
             ELSE Fallthrough
    ELSE Fallthrough

\* lines 20-39: one pass through the loop body for `dir`
examine(dir) ==
    LET entry == EntryAt(dir)
    IN  IF entry.kind = "dir" THEN head_of_git_dir(entry)
        ELSE IF entry.kind = "file" THEN head_of_git_file(entry)
        ELSE Fallthrough

\* the filesystem accesses of one pass through the loop body
accesses(dir) ==
    LET entry == EntryAt(dir)
        git_dir == join(dir, ".git")
    IN  {<<"stat", git_dir>>}
        \cup (IF entry.kind = "dir" THEN {<<"read", join(git_dir, "HEAD")>>} ELSE {})
        \cup (IF entry.kind = "file" THEN {<<"read", git_dir>>} ELSE {})
        \cup (IF entry.kind = "file" /\ entry.text # None
                 /\ strip_prefix(entry.text[1], GitdirPrefix) # None
              THEN {<<"read_gitdir",
                      trim(strip_prefix(entry.text[1], GitdirPrefix)[1])>>}
              ELSE {})

\* lines 10-18: the empty-path check and the loop variable's initial value
Call(p) ==
    /\ pc = "idle"
    /\ path' = p
    /\ IF is_empty(p)
       THEN /\ pc' = "done"
            /\ result' = None
            /\ UNCHANGED current
       ELSE /\ pc' = "loop"
            /\ current' = Some(p)
            /\ UNCHANGED result
    /\ UNCHANGED <<visited, reads>>
    /\ UNCHANGED fsVars
    /\ UNCHANGED parseVars

\* lines 19-42: one iteration of `while let Some(dir) = current`
LoopIter ==
    /\ pc = "loop"
    /\ current # None
    /\ LET dir == current[1]
           out == examine(dir)
       IN  /\ visited' = Append(visited, dir)
           /\ reads' = reads \cup accesses(dir)
           /\ IF out.ret
              THEN /\ pc' = "done"
                   /\ result' = out.value
                   /\ UNCHANGED current
              ELSE /\ current' = parent(dir)
                   /\ UNCHANGED <<pc, result>>
    /\ UNCHANGED path
    /\ UNCHANGED fsVars
    /\ UNCHANGED parseVars

\* lines 19 and 44: `current` is None, the loop ends and the function
\* returns None
LoopExit ==
    /\ pc = "loop"
    /\ current = None
    /\ pc' = "done"
    /\ result' = None
    /\ UNCHANGED <<path, current, visited, reads>>
    /\ UNCHANGED fsVars
    /\ UNCHANGED parseVars

ParseIdle ==
    /\ ppc = "off"
    /\ contents = << >>
    /\ parsed = None

\* the filesystem as the call finds it (the program never writes it)
Init ==
    /\ cwd \in AbsDirs
    /\ dotgit \in [AbsDirs -> GitEntries]
    /\ gitdirHead = [g \in {GitdirW} |-> Some(HeadWorktree)]
    /\ pc = "idle"
    /\ path = << >>
    /\ current = None
    /\ visited = << >>
    /\ reads = {}
    /\ result = None
    /\ ParseIdle

Next ==
    \/ \E p \in InputPaths : Call(p)
    \/ LoopIter
    \/ LoopExit

Spec == Init /\ [][Next]_vars

\* The call is synchronous: a loop that is running takes its next step.
\* Within Spec the steps that leave pc = "loop" with <<pc, current>> changed
\* are exactly those of LoopIter and LoopExit, and one of the two is enabled
\* whenever pc = "loop".
LoopStep ==
    /\ pc = "loop"
    /\ pc' \in {"loop", "done"}
    /\ current' \in {None} \cup {Some(p) : p \in InputPaths}

FairSpec == Spec /\ WF_<<pc, current>>(LoopStep)

----------------------------------------------------------------------------
(* parse_git_head on its own, over a bounded family of HEAD texts *)

PadChars == {" ", "\n"}
TailChars == {"a", "g", " "}

SeqsUpTo(S, n) == UNION {[1..k -> S] : k \in 0..n}

TextStarts == {<< >>, RefPrefix, <<"r", "e", "f", ":">>}

TextNamespaces ==
    {<< >>, HeadsPrefix, RemotesPrefix,
     <<"r", "e", "f", "s", "/", "t", "a", "g", "s", "/">>}

TextCores ==
    {<< >>,
     <<"o", "r", "i", "g", "i", "n", "/", "m">>,
     <<"a", "b", "c", "1", "2", "3">>,
     <<"A", "b", "c", "1", "2", "3", "4">>,
     <<"a", "b", "c", "1", "2", "é">>}

HeadInputs ==
    {lead \o start \o ns \o core \o tail \o trail :
        lead \in SeqsUpTo(PadChars, MaxPad),
        start \in TextStarts,
        ns \in TextNamespaces,
        core \in TextCores,
        tail \in SeqsUpTo(TailChars, MaxTail),
        trail \in SeqsUpTo(PadChars, MaxPad)}

WalkIdle ==
    /\ cwd = Root
    /\ dotgit = [d \in AbsDirs |-> NoEntry]
    /\ gitdirHead = [g \in {GitdirW} |-> Some(HeadWorktree)]
    /\ pc = "off"
    /\ path = << >>
    /\ current = None
    /\ visited = << >>
    /\ reads = {}
    /\ result = None

InitParse ==
    /\ ppc = "ready"
    /\ contents \in HeadInputs
    /\ parsed = None
    /\ WalkIdle

\* lines 48-70: one call of parse_git_head
Parse ==
    /\ ppc = "ready"
    /\ parsed' = parse_git_head(contents)
    /\ ppc' = "parsed"
    /\ UNCHANGED contents
    /\ UNCHANGED fsVars
    /\ UNCHANGED walkVars

NextParse == Parse

SpecParse == InitParse /\ [][NextParse]_vars

----------------------------------------------------------------------------
(* What the properties are stated with *)

\* the positions of s that hold no whitespace
NonBlank(s) == {k \in 1..Len(s) : ~is_whitespace(s[k])}

Least(S) == CHOOSE x \in S : \A y \in S : x <= y
Greatest(S) == CHOOSE x \in S : \A y \in S : x >= y

\* the whitespace-trimmed form of s, said without trim: what lies between
\* the first and the last character of s that is not whitespace
Trimmed(s) ==
    IF NonBlank(s) = {} THEN << >>
    ELSE SubSeq(s, Least(NonBlank(s)), Greatest(NonBlank(s)))

RefHeads == RefPrefix \o HeadsPrefix

\* the text after the first n characters of t
After(t, n) == SubSeq(t, n + 1, Len(t))

----------------------------------------------------------------------------
(* Properties of parse_git_head, checked under SpecParse *)

\* C6: a HEAD text whose trimmed form is `ref: refs/heads/` followed by X
\* parses to exactly X, slashes kept, whatever whitespace surrounds the text.
C6_BranchNameReturned ==
    ppc = "parsed" =>
        LET t == Trimmed(contents) IN
            starts_with(t, RefHeads) => parsed = Some(After(t, Len(RefHeads)))

C6_Witness ==
    /\ ppc = "parsed"
    /\ contents = <<" ">> \o RefHeads \o <<"o", "r", "i", "g", "i", "n", "/", "m", "\n">>
    /\ parsed = Some(<<"o", "r", "i", "g", "i", "n", "/", "m">>)

\* C7: a HEAD text whose trimmed form does not start with `ref: ` parses to
\* its first 7 characters followed by `...` exactly when the trimmed form has
\* at least 7 characters, all of them ASCII hexadecimal digits, and to None
\* otherwise.
C7_DetachedHash ==
    ppc = "parsed" =>
        LET t == Trimmed(contents) IN
            ~starts_with(t, RefPrefix) =>
                parsed = IF Len(t) >= 7 /\ \A k \in 1..Len(t) : t[k] \in HexDigits
                         THEN Some(SubSeq(t, 1, 7) \o <<".", ".", ".">>)
                         ELSE None

C7_Witness ==
    /\ ppc = "parsed"
    /\ contents = <<"A", "b", "c", "1", "2", "3", "4", "\n">>
    /\ parsed = Some(<<"A", "b", "c", "1", "2", "3", "4", ".", ".", ".">>)

\* C8: a HEAD text whose trimmed form is `ref: ` followed by R, R not
\* starting with `refs/heads/`, parses to R without `refs/remotes/` when R
\* starts with it and to R unchanged otherwise; a trimmed form that starts
\* with `ref: ` never parses to None.
C8_OtherRefs ==
    ppc = "parsed" =>
        LET t == Trimmed(contents) IN
            starts_with(t, RefPrefix) =>
                LET R == After(t, Len(RefPrefix))
                IN  /\ parsed # None
                    /\ ~starts_with(R, HeadsPrefix) =>
                          parsed = IF starts_with(R, RemotesPrefix)
                                   THEN Some(After(R, Len(RemotesPrefix)))
                                   ELSE Some(R)

C8_Witness ==
    /\ ppc = "parsed"
    /\ contents = RefPrefix \o RemotesPrefix
                    \o <<"o", "r", "i", "g", "i", "n", "/", "m", "a", "\n">>
    /\ parsed = Some(<<"o", "r", "i", "g", "i", "n", "/", "m", "a">>)

----------------------------------------------------------------------------
(* Properties of get_git_branch, checked under Spec and FairSpec *)

\* the path one level up, and whether there is one
Up(p) == SubSeq(p, 1, Len(p) - 1)
HasParent(p) == p # << >> /\ p # Root

\* the i-th directory of the upward walk from p: p itself, then its parents
Chain(p, i) == SubSeq(p, 1, Len(p) - i + 1)
ChainLen(p) == IF p[1] = "/" THEN Len(p) ELSE Len(p) + 1

GitDirReadable(d) == EntryAt(d).kind = "dir" /\ EntryAt(d).text # None
GitDirUnreadable(d) == EntryAt(d).kind = "dir" /\ EntryAt(d).text = None

\* `.git` of d is a readable regular file
MarkerAt(d) == EntryAt(d).kind = "file" /\ EntryAt(d).text # None
MarkerWellFormed(d) == MarkerAt(d) /\ starts_with(EntryAt(d).text[1], GitdirPrefix)
\* the <path> of a `gitdir: <path>` file
MarkerTarget(d) == Trimmed(After(EntryAt(d).text[1], Len(GitdirPrefix)))
TargetHead(d) ==
    IF MarkerTarget(d) \in DOMAIN gitdirHead THEN gitdirHead[MarkerTarget(d)] ELSE None
MarkerBroken(d) ==
    MarkerAt(d) /\ (MarkerWellFormed(d) => TargetHead(d) = None)
MarkerResolves(d) == MarkerWellFormed(d) /\ TargetHead(d) # None

\* d gives the search a HEAD text
YieldsHead(d) == GitDirReadable(d) \/ MarkerResolves(d)

\* after the i-th examined directory the walk goes on: the parent is examined
\* next (or is about to be), and without a parent the call returns None
GoesOn(i) ==
    LET d == visited[i]
    IN  IF HasParent(d)
        THEN IF i < Len(visited)
             THEN visited[i + 1] = Up(d)
             ELSE pc = "loop" /\ current = Some(Up(d))
        ELSE i = Len(visited) /\ current = None /\ result = None

\* a `.git` directory with a readable HEAD right above the i-th examined
\* directory decides the result
ParentDecides(i) ==
    (i < Len(visited) /\ GitDirReadable(visited[i + 1])) =>
        result = parse_git_head(EntryAt(visited[i + 1]).text[1])

\* C1 as stated: a `.git` directory whose HEAD cannot be read ends the walk
\* there with None, no ancestor being examined afterwards.
C1_UnreadableHeadStops ==
    pc = "done" =>
        \A i \in 1..Len(visited) :
            GitDirUnreadable(visited[i]) => i = Len(visited) /\ result = None

\* C1, amended: a `.git` directory whose HEAD cannot be read does not end the
\* walk: the parent directory is examined next, a readable HEAD in the
\* parent's `.git` directory decides the result, and the call returns None
\* at that directory only when it has no parent.
C1_UnreadableHeadGoesOn ==
    \A i \in 1..Len(visited) :
        GitDirUnreadable(visited[i]) => GoesOn(i) /\ ParentDecides(i)

C1_Witness ==
    /\ pc = "done"
    /\ \E i \in 1..(Len(visited) - 1) :
          /\ GitDirUnreadable(visited[i])
          /\ EntryAt(visited[i + 1]) = [kind |-> "dir", text |-> Some(HeadDevelop)]
    /\ result = Some(Develop)

\* C2: a directory the walk examines that has a `.git` directory with a
\* readable HEAD is the last one examined, and the call returns
\* parse_git_head of that HEAD, None included.
C2_ReadableHeadDecides ==
    \A i \in 1..Len(visited) :
        GitDirReadable(visited[i]) =>
            /\ pc = "done"
            /\ i = Len(visited)
            /\ result = parse_git_head(EntryAt(visited[i]).text[1])

C2_Witness ==
    /\ pc = "done"
    /\ visited # << >>
    /\ LET d == visited[Len(visited)]
       IN  /\ EntryAt(d) = [kind |-> "dir", text |-> Some(HeadGarbage)]
           /\ HasParent(d)
           /\ EntryAt(Up(d)) = [kind |-> "dir", text |-> Some(HeadDevelop)]
    /\ result = None

\* C3 as stated: a worktree file that is malformed or whose target HEAD
\* cannot be read makes the call return None, whatever lies above.
C3_BrokenMarkerStops ==
    pc = "done" =>
        \A i \in 1..Len(visited) : MarkerBroken(visited[i]) => result = None

\* C3, amended: a worktree file that is malformed or whose target HEAD cannot
\* be read does not end the walk: the parent directory is examined next, a
\* readable HEAD in the parent's `.git` directory decides the result, and the
\* call returns None at that directory only when it has no parent.
C3_BrokenMarkerGoesOn ==
    \A i \in 1..Len(visited) :
        MarkerBroken(visited[i]) => GoesOn(i) /\ ParentDecides(i)

C3_Witness ==
    /\ pc = "done"
    /\ \E i \in 1..(Len(visited) - 1) :
          /\ EntryAt(visited[i]).text \in {Some(MarkerMalformed), Some(MarkerDangling)}
          /\ MarkerBroken(visited[i])
          /\ GitDirReadable(visited[i + 1])
    /\ result = Some(Develop)

\* the directories that are the path itself or one of its ancestors in the
\* filesystem
AncestorsOrSelf(p) ==
    {SubSeq(resolve(p), 1, k) : k \in 1..Len(resolve(p))}

HoldsDevelop(d) == EntryAt(d) = [kind |-> "dir", text |-> Some(HeadDevelop)]

\* C4 as stated: with a `.git` directory holding `ref: refs/heads/develop` in
\* some directory A, every path that is A or below A gives `develop`.
C4_AnyDescendantDevelop ==
    (pc = "done" /\ path # << >> /\ \E A \in AncestorsOrSelf(path) : HoldsDevelop(A))
        => result = Some(Develop)

\* C4, amended: the call gives `develop` when A is the first directory, among
\* the path and its successive parents as Path::parent gives them, whose
\* `.git` yields a readable HEAD.
C4_NearestDevelop ==
    (/\ pc = "done"
     /\ path # << >>
     /\ \E k \in 1..ChainLen(path) :
           /\ HoldsDevelop(Chain(path, k))
           /\ \A j \in 1..(k - 1) : ~YieldsHead(Chain(path, j)))
        => result = Some(Develop)

C4_Witness ==
    /\ pc = "done"
    /\ Len(visited) >= 3
    /\ HoldsDevelop(visited[Len(visited)])
    /\ \A j \in 1..(Len(visited) - 1) : ~YieldsHead(visited[j])
    /\ result = Some(Develop)

\* C5: the call with the empty path returns None at once: no directory is
\* examined and no file is read, the working directory's `.git` included.
C5_EmptyPathNoAccess ==
    path = << >> /\ pc # "idle" =>
        pc = "done" /\ result = None /\ reads = {} /\ visited = << >>

C5_Witness ==
    /\ pc = "done"
    /\ path = << >>
    /\ dotgit[cwd] = [kind |-> "dir", text |-> Some(HeadDevelop)]
    /\ result = None

\* C9: a `.git` regular file `gitdir: <path>` makes the call read
\* <path>/HEAD, <path> being the rest of the file with the whitespace around
\* it removed, and return parse_git_head of that file when it is readable.
C9_WorktreeFollowed ==
    \A i \in 1..Len(visited) :
        MarkerWellFormed(visited[i]) =>
            /\ <<"read_gitdir", MarkerTarget(visited[i])>> \in reads
            /\ TargetHead(visited[i]) # None =>
                  /\ pc = "done"
                  /\ i = Len(visited)
                  /\ result = parse_git_head(TargetHead(visited[i])[1])

C9_Witness ==
    /\ pc = "done"
    /\ visited # << >>
    /\ EntryAt(visited[Len(visited)]).text = Some(MarkerGood)
    /\ <<"read_gitdir", GitdirW>> \in reads
    /\ result = Some(<<"w", "t">>)

\* what a finished call has done: examined the path and then each successive
\* parent once, none before the last giving a HEAD, and stopped either at a
\* directory that gave a HEAD or, with None, at the one that has no parent
WalkDone ==
    /\ pc = "done"
    /\ IF path = << >>
       THEN visited = << >> /\ result = None
       ELSE LET n == Len(visited)
            IN  /\ n \in 1..ChainLen(path)
                /\ \A i \in 1..n : visited[i] = Chain(path, i)
                /\ \A i \in 1..(n - 1) : ~YieldsHead(visited[i])
                /\ ~YieldsHead(visited[n]) =>
                      n = ChainLen(path) /\ ~HasParent(visited[n]) /\ result = None

\* C10: every call terminates, having visited the input path and then each
\* successive parent exactly once, stopping after the directory without a
\* parent and returning None when no visited directory yielded a HEAD.
C10_WalkTerminates == (pc # "idle") ~> WalkDone

C10_Witness ==
    /\ WalkDone
    /\ Len(visited) = MaxDepth + 1
    /\ \A i \in 1..Len(visited) : ~YieldsHead(visited[i])
    /\ result = None

====
